---- MODULE Spec2Model ----
(***************************************************************************)
(* Model of eleventy-plugin-tailwindcss-4: the import resolver             *)
(* (lib/resolveImports.js) run as an explicit-stack state machine over a   *)
(* file system of lexed CSS texts.                                         *)
(*                                                                         *)
(* A path segment is the sequence of its '.'-separated parts               *)
(* ("b.css" = <<"b","css">>, "." = <<"","">>, ".." = <<"","","">>); a path *)
(* is a record [abs, segs]; a CSS text is a sequence of lexemes.           *)
(***************************************************************************)
EXTENDS Integers, Sequences, FiniteSets, TLC

\* ------------------------------------------------------------------ bounds
MaxEdges == 3          \* import statements in the ordered import-graph family
MaxStmts == 2          \* statements of the entry file in the statement family
MaxCommentItems == 5   \* items of the entry file in the comment family
MaxLiveEdges == 4      \* edges of the import graphs given as edge sets
MaxDepth == 6          \* cap on the recursion depth (never reached by the code)
MaxBuilds == 2         \* build cycles the host starts after a registration
MaxEdits == 1          \* changes the user makes to the entry file
MaxCalls == 3          \* top-level resolveImports calls of one process

\* ----------------------------------------------------------- path algebra
Dot == <<"", "">>
DotDot == <<"", "", "">>
Seg(name, ext) == <<name, ext>>
Plain(name) == <<name>>

AbsPath(segs) == [abs |-> TRUE, segs |-> segs]
RelPath(segs) == [abs |-> FALSE, segs |-> segs]

\* process.cwd()
Cwd == AbsPath(<<Plain("w")>>)

Front(s) == SubSeq(s, 1, Len(s) - 1)
Last(s) == s[Len(s)]

RECURSIVE NormalizeSegs(_, _)
\* normalizeString of node:path for an absolute path: "." is dropped and
\* ".." removes the segment before it (the root has no parent)
NormalizeSegs(segs, acc) ==
  IF segs = <<>> THEN acc
  ELSE IF Head(segs) = Dot THEN NormalizeSegs(Tail(segs), acc)
  ELSE IF Head(segs) = DotDot
    THEN NormalizeSegs(Tail(segs), IF acc = <<>> THEN acc ELSE Front(acc))
  ELSE NormalizeSegs(Tail(segs), Append(acc, Head(segs)))

\* path.resolve(from, to): right to left until an absolute path is built,
\* falling back on the working directory; the result is normalised
PathResolve(from, to) ==
  IF to.abs THEN AbsPath(NormalizeSegs(to.segs, <<>>))
  ELSE IF from.abs THEN AbsPath(NormalizeSegs(from.segs \o to.segs, <<>>))
  ELSE AbsPath(NormalizeSegs(Cwd.segs \o from.segs \o to.segs, <<>>))

\* path.dirname(p): "." (no segments, relative) for a bare file name
PathDirname(p) ==
  IF Len(p.segs) <= 1 THEN [abs |-> p.abs, segs |-> <<>>]
  ELSE [abs |-> p.abs, segs |-> Front(p.segs)]

NoExt == <<>>

\* an extension test that takes any '.' in the final segment for the start
\* of an extension
PathExtnameAnyDot(p) ==
  IF p.segs = <<>> THEN NoExt
  ELSE IF Len(Last(p.segs)) = 1 THEN NoExt
  ELSE <<".", Last(Last(p.segs))>>

\* path.extname(p): the part after the last '.' of the final segment; empty
\* when the segment has no '.', when its only '.' is its first character,
\* or when the segment is ".."
PathExtname(p) ==
  IF p.segs = <<>> THEN NoExt
  ELSE LET base == Last(p.segs) IN
    IF Len(base) = 1 THEN NoExt
    ELSE IF Len(base) = 2 /\ base[1] = "" THEN NoExt
    ELSE IF base = DotDot THEN NoExt
    ELSE <<".", Last(base)>>

\* the file a path string denotes for the operating system
FileOf(p) == PathResolve(RelPath(<<>>), p)

\* ------------------------------------------------------------------ lexemes
\* A CSS text is a sequence of lexemes: the keyword "@import", a run of
\* white space, a quoted string literal (its quote characters and the
\* specifier between them), "url(", ")", "/*", "*/", ";", a line break that
\* follows no "@import", and any other text.
NoPath == RelPath(<<>>)
Lex(t) == [t |-> t, q |-> "", v |-> NoPath]
LAtImport == Lex("@import")
LWs == Lex("ws")
LNewline == Lex("nl")
LStr(q, spec) == [t |-> "str", q |-> q, v |-> spec]
LUrlOpen == Lex("url(")
LParenClose == Lex(")")
LOpen == Lex("/*")
LClose == Lex("*/")
LSemi == Lex(";")
LTxt == Lex("txt")

\* @import "spec";    and    @import url("spec");
ImportQ(q, spec) == <<LAtImport, LWs, LStr(q, spec), LSemi>>
ImportUrl(q, spec) == <<LAtImport, LWs, LUrlOpen, LStr(q, spec), LParenClose, LSemi>>

RECURSIVE Flatten(_)
Flatten(items) ==
  IF items = <<>> THEN <<>> ELSE Head(items) \o Flatten(Tail(items))

Min(S) == CHOOSE x \in S : \A y \in S : x <= y
Max(S) == CHOOSE x \in S : \A y \in S : x >= y

\* the index at which a comment opened at position 1 ends: the first "*/"
CommentEnd(text) == Min({j \in 2..Len(text) : text[j] = LClose})

\* a greedy match would run to the last "*/" of the text
CommentEndGreedy(text) == Max({j \in 2..Len(text) : text[j] = LClose})

RECURSIVE StripCommentsGreedy(_)
\* the replace with a greedy quantifier, /\/\*[\s\S]*\*\//g
StripCommentsGreedy(text) ==
  IF text = <<>> THEN <<>>
  ELSE IF Head(text) = LOpen /\ \E j \in 2..Len(text) : text[j] = LClose
    THEN StripCommentsGreedy(SubSeq(text, CommentEndGreedy(text) + 1, Len(text)))
  ELSE <<Head(text)>> \o StripCommentsGreedy(Tail(text))

RECURSIVE StripCommentsToEnd(_)
\* a replace that also removes an unclosed comment, up to the end of the
\* text: /\/\*[\s\S]*?(\*\/|$)/g
StripCommentsToEnd(text) ==
  IF text = <<>> THEN <<>>
  ELSE IF Head(text) = LOpen /\ \E j \in 2..Len(text) : text[j] = LClose
    THEN StripCommentsToEnd(SubSeq(text, CommentEnd(text) + 1, Len(text)))
  ELSE IF Head(text) = LOpen THEN <<>>
  ELSE <<Head(text)>> \o StripCommentsToEnd(Tail(text))

RECURSIVE StripComments(_)
\* raw.replace(/\/\*[\s\S]*?\*\//g, ''): left to right, every "/*" that has
\* a "*/" after it is removed together with the shortest span up to one; a
\* "/*" with no "*/" after it matches nothing and stays
StripComments(text) ==
  IF text = <<>> THEN <<>>
  ELSE IF Head(text) = LOpen /\ \E j \in 2..Len(text) : text[j] = LClose
    THEN StripComments(SubSeq(text, CommentEnd(text) + 1, Len(text)))
  ELSE <<Head(text)>> \o StripComments(Tail(text))

\* one attempt of /@import\s+(?!url\()['"]([^'"]+)['"]/ at the head of c
MatchesAtHead(c) ==
  /\ Len(c) >= 3
  /\ c[1] = LAtImport
  /\ c[2] = LWs
  /\ c[3] # LUrlOpen
  /\ c[3].t = "str"

RECURSIVE ImportMatchesUrl(_)
\* the matches of a pattern that lets "url(" through,
\* /@import\s+(?:url\()?['"]([^'"]+)['"]/
ImportMatchesUrl(c) ==
  IF c = <<>> THEN <<>>
  ELSE IF MatchesAtHead(c)
    THEN <<c[3].v>> \o ImportMatchesUrl(SubSeq(c, 4, Len(c)))
  ELSE IF Len(c) >= 4 /\ c[1] = LAtImport /\ c[2] = LWs
          /\ c[3] = LUrlOpen /\ c[4].t = "str"
    THEN <<c[4].v>> \o ImportMatchesUrl(SubSeq(c, 5, Len(c)))
  ELSE ImportMatchesUrl(Tail(c))

RECURSIVE ImportMatches(_)
\* the successive importRegex.exec(content) results: the captured
\* specifiers, left to right, each search resuming after the last match
ImportMatches(c) ==
  IF c = <<>> THEN <<>>
  ELSE IF MatchesAtHead(c)
    THEN <<c[3].v>> \o ImportMatches(SubSeq(c, 4, Len(c)))
  ELSE ImportMatches(Tail(c))

\* -------------------------------------------------------------- file system
File(text) == [kind |-> "file", text |-> text]
Directory == [kind |-> "dir", text |-> <<>>]

W == Plain("w")
Sub == Plain("sub")
DirW == AbsPath(<<W>>)
DirSub == AbsPath(<<W, Sub>>)
FileA == AbsPath(<<W, Seg("a", "css")>>)
FileB == AbsPath(<<W, Seg("b", "css")>>)
FileC == AbsPath(<<W, Sub, Seg("c", "css")>>)
FileD == AbsPath(<<W, Sub, Seg("d", "css")>>)
FileSubB == AbsPath(<<W, Sub, Seg("b", "css")>>)
DirPack == AbsPath(<<W, Seg("pack", "css")>>)
Missing == AbsPath(<<W, Seg("missing", "css")>>)

\* the same file named relative to the working directory
RelA == RelPath(<<Seg("a", "css")>>)
RelMissing == RelPath(<<Seg("missing", "css")>>)
RelC == RelPath(<<Sub, Seg("c", "css")>>)

\* -------------------------------------------------------------------- state
VARIABLES
  fs,      \* the files and directories on disk, by absolute path
  entry,   \* the path handed to the top-level resolveImports call
  logger,  \* the callbacks the caller's logger object provides
  pc,      \* "none" (not called), "idle", "running", "done" (returned) or "thrown"
  stack,   \* the activation records of resolveImports, innermost last
  seen,    \* the Set shared by the recursion
  result,  \* the array the top-level call returned
  trace,   \* file-system calls and callback invocations, in order
  earlier, \* the top-level calls that returned before: entry, result, trace
  host,         \* eleventyConfig: the legacy dir and the resolved directories
  userOptions,  \* the options argument of tailwindcss(eleventyConfig, options)
  plugin,       \* the registration: its position and the constants it closes over
  calls,        \* host calls, fs/promises calls and diagnostics of index.js, in order
  runs,         \* the invocations of the eleventy.before handler, oldest first
  builds,       \* build cycles the host will still start
  edits         \* changes the user will still make to the entry file

\* the state of index.js, which resolveImports never touches
orchestrator == <<host, userOptions, plugin, calls, runs, builds, edits>>

vars == <<fs, entry, logger, pc, stack, seen, result, trace, earlier,
          host, userOptions, plugin, calls, runs, builds, edits>>

Callbacks == {"onSkipBare", "onSkipNotFound", "onWatch"}

Event(op, arg) == [op |-> op, arg |-> arg]

\* logger.cb?.(arg)
Notify(tr, cb, arg) == IF cb \in logger THEN Append(tr, Event(cb, arg)) ELSE tr

\* existsSync(p)
ExistsSync(p) == FileOf(p) \in DOMAIN fs

IsRegularFile(p) == p \in DOMAIN fs /\ fs[p].kind = "file"
IsDirectory(p) == p \in DOMAIN fs /\ fs[p].kind = "dir"

Frame(filePath, at, dir, matches, imports) ==
  [filePath |-> filePath, at |-> at, dir |-> dir,
   matches |-> matches, imports |-> imports]

\* a call that has bound its parameters and not yet run line 19
NewFrame(filePath) == Frame(filePath, "entry", NoPath, <<>>, <<>>)

Top == stack[Len(stack)]
SetTop(f) == [stack EXCEPT ![Len(stack)] = f]

\* resolveImports(entry, logger): the caller starts the top-level call, the
\* seen parameter takes its default, a new Set
Call ==
  /\ pc = "idle"
  /\ pc' = "running"
  /\ stack' = <<NewFrame(entry)>>
  /\ seen' = {}
  /\ UNCHANGED <<fs, entry, logger, result, trace>>
  /\ UNCHANGED <<earlier, orchestrator>>

\* the base case with a report of the path that was not scanned
EnterBaseReports ==
  /\ pc = "running" /\ Top.at = "entry"
  /\ ~ExistsSync(Top.filePath) \/ Top.filePath \in seen
  /\ trace' = Notify(Append(trace, Event("existsSync", Top.filePath)),
                     "onSkipNotFound", Top.filePath)
  /\ stack' = SetTop([Top EXCEPT !.at = "return"])
  /\ UNCHANGED <<fs, entry, logger, pc, seen, result>>
  /\ UNCHANGED <<earlier, orchestrator>>

\* lines 19-20: the path does not exist or was seen: return the empty array
EnterBase ==
  /\ pc = "running" /\ Top.at = "entry"
  /\ ~ExistsSync(Top.filePath) \/ Top.filePath \in seen
  /\ trace' = Append(trace, Event("existsSync", Top.filePath))
  /\ stack' = SetTop([Top EXCEPT !.at = "return"])
  /\ UNCHANGED <<fs, entry, logger, pc, seen, result>>
  /\ UNCHANGED <<earlier, orchestrator>>

\* the scan without line 21: the path is never added to seen
EnterScanNoMark ==
  /\ pc = "running" /\ Top.at = "entry"
  /\ ExistsSync(Top.filePath) /\ Top.filePath \notin seen
  /\ fs[FileOf(Top.filePath)].kind = "file"
  /\ trace' = trace \o <<Event("existsSync", Top.filePath),
                         Event("readFileSync", Top.filePath)>>
  /\ LET raw == fs[FileOf(Top.filePath)].text
         content == StripComments(raw)
     IN stack' = SetTop(Frame(Top.filePath, "loop", PathDirname(Top.filePath),
                              ImportMatches(content), <<>>))
  /\ UNCHANGED <<fs, entry, logger, pc, seen, result>>
  /\ UNCHANGED <<earlier, orchestrator>>

\* lines 19-30: mark the path seen, read it, strip the comments and collect
\* the matches of importRegex
EnterScan ==
  /\ pc = "running" /\ Top.at = "entry"
  /\ ExistsSync(Top.filePath) /\ Top.filePath \notin seen
  /\ fs[FileOf(Top.filePath)].kind = "file"
  /\ seen' = seen \cup {Top.filePath}
  /\ trace' = trace \o <<Event("existsSync", Top.filePath),
                         Event("readFileSync", Top.filePath)>>
  /\ LET raw == fs[FileOf(Top.filePath)].text
         content == StripComments(raw)
     IN stack' = SetTop(Frame(Top.filePath, "loop", PathDirname(Top.filePath),
                              ImportMatches(content), <<>>))
  /\ UNCHANGED <<fs, entry, logger, pc, result>>
  /\ UNCHANGED <<earlier, orchestrator>>

\* line 23 on a directory: readFileSync throws EISDIR, no frame catches it
EnterThrow ==
  /\ pc = "running" /\ Top.at = "entry"
  /\ ExistsSync(Top.filePath) /\ Top.filePath \notin seen
  /\ fs[FileOf(Top.filePath)].kind = "dir"
  /\ seen' = seen \cup {Top.filePath}
  /\ trace' = trace \o <<Event("existsSync", Top.filePath),
                         Event("readFileSync", Top.filePath)>>
  /\ stack' = <<>>
  /\ pc' = "thrown"
  /\ UNCHANGED <<fs, entry, logger, result>>
  /\ UNCHANGED <<earlier, orchestrator>>

\* the loop has a next match
AtMatch == pc = "running" /\ Top.at = "loop" /\ Top.matches # <<>>
ImportPath == Head(Top.matches)

\* the specifier resolved against the directory of the entry file
ResolvedFromEntryDir == PathResolve(PathDirname(entry), ImportPath)

\* line 43: path.resolve(dir, importPath)
Resolved == PathResolve(Top.dir, ImportPath)
Advance(f) == [f EXCEPT !.matches = Tail(f.matches)]

\* the bare-module branch reporting the resolved path, not the specifier
IterBareReportsResolved ==
  /\ AtMatch
  /\ PathExtname(ImportPath) = NoExt
  /\ trace' = Notify(trace, "onSkipBare", Resolved)
  /\ stack' = SetTop(Advance(Top))
  /\ UNCHANGED <<fs, entry, logger, pc, seen, result>>
  /\ UNCHANGED <<earlier, orchestrator>>

\* lines 38-41: a specifier without an extension is reported and skipped
IterBare ==
  /\ AtMatch
  /\ PathExtname(ImportPath) = NoExt
  /\ trace' = Notify(trace, "onSkipBare", ImportPath)
  /\ stack' = SetTop(Advance(Top))
  /\ UNCHANGED <<fs, entry, logger, pc, seen, result>>
  /\ UNCHANGED <<earlier, orchestrator>>

\* the not-found branch leaving the loop (break) instead of continuing
IterNotFoundBreaks ==
  /\ AtMatch
  /\ PathExtname(ImportPath) # NoExt
  /\ ~ExistsSync(Resolved)
  /\ trace' = Notify(Append(trace, Event("existsSync", Resolved)),
                     "onSkipNotFound", Resolved)
  /\ stack' = SetTop([Top EXCEPT !.matches = <<>>])
  /\ UNCHANGED <<fs, entry, logger, pc, seen, result>>
  /\ UNCHANGED <<earlier, orchestrator>>

\* lines 43-48: the resolved path is not on disk
IterNotFound ==
  /\ AtMatch
  /\ PathExtname(ImportPath) # NoExt
  /\ ~ExistsSync(Resolved)
  /\ trace' = Notify(Append(trace, Event("existsSync", Resolved)),
                     "onSkipNotFound", Resolved)
  /\ stack' = SetTop(Advance(Top))
  /\ UNCHANGED <<fs, entry, logger, pc, seen, result>>
  /\ UNCHANGED <<earlier, orchestrator>>

\* line 51, false branch: the resolved path is in seen
IterSeen ==
  /\ AtMatch
  /\ PathExtname(ImportPath) # NoExt
  /\ ExistsSync(Resolved)
  /\ Resolved \in seen
  /\ trace' = Append(trace, Event("existsSync", Resolved))
  /\ stack' = SetTop(Advance(Top))
  /\ UNCHANGED <<fs, entry, logger, pc, seen, result>>
  /\ UNCHANGED <<earlier, orchestrator>>

\* lines 51-56: report the path, push it and call resolveImports on it
IterRecurse ==
  /\ AtMatch
  /\ PathExtname(ImportPath) # NoExt
  /\ ExistsSync(Resolved)
  /\ Resolved \notin seen
  /\ Len(stack) < MaxDepth
  /\ trace' = Notify(Append(trace, Event("existsSync", Resolved)),
                     "onWatch", Resolved)
  /\ stack' = Append(SetTop([Advance(Top) EXCEPT
                               !.imports = Append(Top.imports, Resolved)]),
                     NewFrame(Resolved))
  /\ UNCHANGED <<fs, entry, logger, pc, seen, result>>
  /\ UNCHANGED <<earlier, orchestrator>>

\* the return whose value the caller at line 56 drops
ReturnLosesNested ==
  /\ pc = "running"
  /\ Top.at = "return" \/ (Top.at = "loop" /\ Top.matches = <<>>)
  /\ IF Len(stack) = 1
       THEN /\ result' = Top.imports
            /\ pc' = "done"
            /\ stack' = <<>>
       ELSE /\ stack' = SubSeq(stack, 1, Len(stack) - 1)
            /\ UNCHANGED <<result, pc>>
  /\ UNCHANGED <<fs, entry, logger, seen, trace>>
  /\ UNCHANGED <<earlier, orchestrator>>

\* line 20 or line 60: return imports; the caller at line 56 pushes them
\* onto its own array, the top-level caller receives them
Return ==
  /\ pc = "running"
  /\ Top.at = "return" \/ (Top.at = "loop" /\ Top.matches = <<>>)
  /\ IF Len(stack) = 1
       THEN /\ result' = Top.imports
            /\ pc' = "done"
            /\ stack' = <<>>
       ELSE /\ LET caller == stack[Len(stack) - 1] IN
               stack' = Append(SubSeq(stack, 1, Len(stack) - 2),
                               [caller EXCEPT !.imports = caller.imports \o Top.imports])
            /\ UNCHANGED <<result, pc>>
  /\ UNCHANGED <<fs, entry, logger, seen, trace>>
  /\ UNCHANGED <<earlier, orchestrator>>

\* the paths a caller resolves next: a path it resolved before, or b.css
CallEntries == {FileB, entry} \cup {earlier[i].entry : i \in 1..Len(earlier)}

\* a later call that goes on with the Set of the call before it, as a
\* default value evaluated once for the module would
CallAgainSharedSeen ==
  /\ pc = "done"
  /\ Len(earlier) < MaxCalls - 1
  /\ \E e \in CallEntries :
       /\ entry' = e
       /\ stack' = <<NewFrame(e)>>
  /\ earlier' = Append(earlier, [entry |-> entry, result |-> result, trace |-> trace])
  /\ pc' = "running"
  /\ result' = <<>>
  /\ trace' = <<>>
  /\ UNCHANGED <<fs, logger, seen>>
  /\ UNCHANGED orchestrator

\* line 18, called again at top level by a caller that kept the result of
\* the call before: seen takes its default, a new Set, once more
CallAgain ==
  /\ pc = "done"
  /\ Len(earlier) < MaxCalls - 1
  /\ \E e \in CallEntries :
       /\ entry' = e
       /\ stack' = <<NewFrame(e)>>
  /\ earlier' = Append(earlier, [entry |-> entry, result |-> result, trace |-> trace])
  /\ pc' = "running"
  /\ seen' = {}
  /\ result' = <<>>
  /\ trace' = <<>>
  /\ UNCHANGED <<fs, logger>>
  /\ UNCHANGED orchestrator

Next ==
  \/ Call
  \/ EnterBase
  \/ EnterScan
  \/ EnterThrow
  \/ IterBare
  \/ IterNotFound
  \/ IterSeen
  \/ IterRecurse
  \/ Return

\* ------------------------------------------------------------ initial states
SeqsUpTo(S, n) == UNION {[1..k -> S] : k \in 0..n}

DQ == "\""
SQ == "'"

\* a specifier that names the target from a file of the directory
LocalSpec(dir, target) ==
  IF dir = DirW THEN
    CASE target = FileA -> RelPath(<<Dot, Seg("a", "css")>>)
      [] target = FileB -> RelPath(<<Seg("b", "css")>>)
      [] target = FileC -> RelPath(<<Dot, Sub, Seg("c", "css")>>)
      [] target = FileD -> RelPath(<<Sub, Seg("d", "css")>>)
  ELSE
    CASE target = FileA -> RelPath(<<DotDot, Seg("a", "css")>>)
      [] target = FileB -> RelPath(<<DotDot, Seg("b", "css")>>)
      [] target = FileC -> RelPath(<<Dot, Seg("c", "css")>>)
      [] target = FileD -> RelPath(<<Seg("d", "css")>>)

GraphFiles == {FileA, FileB, FileC, FileD}

\* the text of a file that imports the targets, in this order
GraphText(dir, targets) ==
  Flatten([i \in 1..Len(targets) |-> ImportQ(DQ, LocalSpec(dir, targets[i]))])
    \o <<LTxt>>

BaseDirs == (AbsPath(<<>>) :> Directory) @@ (DirW :> Directory) @@ (DirSub :> Directory)

Idle ==
  /\ pc = "idle"
  /\ earlier = <<>>
  /\ stack = <<>>
  /\ seen = {}
  /\ result = <<>>
  /\ trace = <<>>

\* import graphs over four files in two directories, at most MaxEdges
\* import statements in all, resolved from an absolute or a relative entry
InitGraph ==
  /\ \E a \in SeqsUpTo(GraphFiles, MaxEdges) :
       \E b \in SeqsUpTo(GraphFiles, MaxEdges - Len(a)) :
         \E c \in SeqsUpTo(GraphFiles, MaxEdges - Len(a) - Len(b)) :
           fs = BaseDirs @@ (FileA :> File(GraphText(DirW, a)))
                         @@ (FileB :> File(GraphText(DirW, b)))
                         @@ (FileC :> File(GraphText(DirSub, c)))
                         @@ (FileD :> File(<<LTxt>>))
  /\ entry \in {FileA, RelA}
  /\ logger = Callbacks
  /\ Idle

SpecB == RelPath(<<Dot, Seg("b", "css")>>)
SpecMissing == RelPath(<<Dot, Seg("missing", "css")>>)
SpecTailwind == RelPath(<<Plain("tailwindcss")>>)
SpecOpenProps == RelPath(<<Plain("open-props"), Plain("normalize")>>)
SpecPack == RelPath(<<Dot, Seg("pack", "css")>>)

StmtSpecs == {SpecB, SpecMissing, SpecTailwind, SpecOpenProps}
Stmts == {ImportQ(q, s) : q \in {DQ, SQ}, s \in StmtSpecs}
           \cup {ImportUrl(q, s) : q \in {DQ, SQ}, s \in StmtSpecs}

\* one entry file of at most MaxStmts import statements of every kind,
\* with a logger that provides every callback or none
InitStmts ==
  /\ \E ss \in SeqsUpTo(Stmts, MaxStmts) :
       fs = BaseDirs @@ (FileA :> File(Flatten(ss)))
                     @@ (FileB :> File(<<LTxt>>))
  /\ entry = FileA
  /\ logger \in {Callbacks, {}}
  /\ Idle

CommentItems ==
  {<<LOpen>>, <<LClose>>, <<LNewline>>, ImportQ(DQ, SpecB), ImportQ(SQ, SpecTailwind)}

\* one entry file of at most MaxCommentItems comment delimiters, line breaks
\* and imports
InitComments ==
  /\ \E cs \in SeqsUpTo(CommentItems, MaxCommentItems) :
       fs = BaseDirs @@ (FileA :> File(Flatten(cs)))
                     @@ (FileB :> File(<<LTxt>>))
  /\ entry = FileA
  /\ logger = Callbacks
  /\ Idle

\* a directory whose name has an extension, imported or given as the entry
InitDirs ==
  /\ \E ss \in SeqsUpTo({ImportQ(DQ, SpecPack), ImportQ(DQ, SpecB),
                         ImportQ(DQ, SpecTailwind), ImportQ(SQ, SpecMissing)}, 2) :
       fs = BaseDirs @@ (FileA :> File(Flatten(ss)))
                     @@ (FileB :> File(ImportQ(SQ, SpecPack)))
                     @@ (DirPack :> Directory)
  /\ entry \in {FileA, DirPack}
  /\ logger = Callbacks
  /\ Idle

\* an entry path that is not on disk
InitMissing ==
  /\ fs = BaseDirs @@ (FileA :> File(ImportQ(DQ, SpecB)))
                   @@ (FileB :> File(<<LTxt>>))
  /\ entry \in {Missing, RelMissing}
  /\ logger \in SUBSET Callbacks
  /\ Idle

SpecSubC == RelPath(<<Dot, Sub, Seg("c", "css")>>)
SpecUpB == RelPath(<<DotDot, Seg("b", "css")>>)

\* nested imports: the same specifier text "./b.css" in files of two
\* directories, the entry in either directory, absolute or relative
InitNested ==
  /\ \E sa \in SeqsUpTo({ImportQ(DQ, SpecB), ImportQ(DQ, SpecSubC)}, 2) :
       \E sc \in SeqsUpTo({ImportQ(SQ, SpecB), ImportQ(SQ, SpecUpB)}, 2) :
         \E withSubB \in BOOLEAN :
           LET base == BaseDirs @@ (FileA :> File(Flatten(sa)))
                                @@ (FileB :> File(<<LTxt>>))
                                @@ (FileC :> File(Flatten(sc)))
           IN fs = IF withSubB THEN base @@ (FileSubB :> File(<<LTxt>>)) ELSE base
  /\ entry \in {FileA, RelA, FileC, RelC}
  /\ logger = Callbacks
  /\ Idle

FileHidden == AbsPath(<<W, <<"", "hidden">>>>)
FileHiddenCss == AbsPath(<<W, <<"", "hidden", "css">>>>)
SpecHidden == RelPath(<<Dot, <<"", "hidden">>>>)
SpecHiddenCss == RelPath(<<<<"", "hidden", "css">>>>)

\* specifiers whose final segment starts with a '.' or is "..": a dotfile on
\* disk ("./.hidden"), a dotfile with an extension (".hidden.css"), the
\* parent directory ("..") and a missing dotfile ("sub/.env")
InitDotfiles ==
  /\ \E ss \in SeqsUpTo({ImportQ(DQ, SpecHidden), ImportQ(SQ, SpecHiddenCss),
                         ImportQ(DQ, RelPath(<<DotDot>>)),
                         ImportQ(SQ, RelPath(<<Sub, <<"", "env">>>>)),
                         ImportQ(DQ, SpecB)}, 2) :
       fs = BaseDirs @@ (FileA :> File(Flatten(ss)))
                     @@ (FileB :> File(<<LTxt>>))
                     @@ (FileHidden :> File(<<LTxt>>))
                     @@ (FileHiddenCss :> File(ImportQ(DQ, SpecHidden)))
  /\ entry = FileA
  /\ logger = Callbacks
  /\ Idle

GraphOrder == <<FileA, FileB, FileC, FileD>>

\* the text of file F in the graph with the edges E
EdgeText(E, F) ==
  GraphText(PathDirname(F), SelectSeq(GraphOrder, LAMBDA g : <<F, g>> \in E))

\* the edges an import graph is drawn from: a.css imports itself, b.css or
\* c.css; b.css and c.css import a.css, each other and the leaf d.css
EdgeUniverse ==
  {e \in {FileA, FileB, FileC} \X GraphFiles :
     /\ e[1] = e[2] => e[1] = FileA
     /\ e # <<FileA, FileD>>}

\* every import graph of at most MaxLiveEdges edges over the four files, the
\* imports of a file in a fixed order
InitEdgeSets ==
  /\ \E E \in SUBSET EdgeUniverse :
       /\ Cardinality(E) <= MaxLiveEdges
       /\ fs = BaseDirs @@ (FileA :> File(EdgeText(E, FileA)))
                        @@ (FileB :> File(EdgeText(E, FileB)))
                        @@ (FileC :> File(EdgeText(E, FileC)))
                        @@ (FileD :> File(<<LTxt>>))
  /\ entry \in {FileA, RelA}
  /\ logger = Callbacks
  /\ Idle

\* eleventyConfig.dir (legacy) and eleventyConfig.directories (resolved)
Host(dirInput, dirOutput, directoriesInput, directoriesOutput) ==
  [dir |-> [input |-> dirInput, output |-> dirOutput],
   directories |-> [input |-> directoriesInput, output |-> directoriesOutput]]

RootDot == RelPath(<<Dot>>)
RootSub == RelPath(<<Sub>>)
OutSite == RelPath(<<Plain("_site")>>)
OutDist == RelPath(<<Plain("dist")>>)

\* a host whose legacy and resolved fields agree
HostSame == Host(RootDot, OutSite, RootDot, OutSite)

\* an options argument that sets nothing
NoOptions == [k \in {} |-> TRUE]

\* resolveImports called on its own, as its tests call it: index.js is not
\* involved
Standalone ==
  /\ host = HostSame
  /\ userOptions = NoOptions
  /\ plugin = [at |-> "none", inputValid |-> FALSE]
  /\ calls = <<>>
  /\ runs = <<>>
  /\ builds = 0
  /\ edits = 0

Init ==
  /\ \/ InitGraph
     \/ InitEdgeSets
     \/ InitStmts
     \/ InitComments
     \/ InitDirs
     \/ InitMissing
     \/ InitNested
     \/ InitDotfiles
  /\ Standalone

Spec == Init /\ [][Next]_vars

\* the inputs of the termination property
InitLive ==
  /\ \/ InitEdgeSets
     \/ InitDirs
     \/ InitMissing
  /\ Standalone

\* the inputs of a process that calls resolveImports more than once
InitCalls ==
  /\ \/ InitEdgeSets
     \/ InitDirs
     \/ InitMissing
     \/ InitNested
  /\ Standalone

CallsNext ==
  \/ Next
  \/ CallAgain

\* one process, up to MaxCalls top-level calls one after another
CallsSpec == InitCalls /\ [][CallsNext]_vars

\* resolveImports is synchronous: a call that has started runs to its end
FairSpec == InitLive /\ [][Next]_vars /\ WF_vars(Next)

TypeOK ==
  /\ pc \in {"none", "idle", "running", "done", "thrown"}
  /\ logger \subseteq Callbacks

\* ------------------------------------------------ the orchestrator: index.js
\* null, the value of tailwindSourceFile when no input option is given
Null == [abs |-> FALSE, segs |-> <<>>, null |-> TRUE]

RECURSIVE NormalizeRelSegs(_, _)
\* normalizeString of node:path for a relative path: "." is dropped, ".."
\* removes the segment before it and stays when there is none to remove
NormalizeRelSegs(segs, acc) ==
  IF segs = <<>> THEN acc
  ELSE IF Head(segs) = Dot THEN NormalizeRelSegs(Tail(segs), acc)
  ELSE IF Head(segs) = DotDot
    THEN NormalizeRelSegs(Tail(segs),
           IF acc = <<>> \/ Last(acc) = DotDot THEN Append(acc, DotDot)
           ELSE Front(acc))
  ELSE NormalizeRelSegs(Tail(segs), Append(acc, Head(segs)))

\* path.join(a, b): the segments of both, normalised; the result is absolute
\* exactly when a is
PathJoin(a, b) ==
  IF a.abs THEN AbsPath(NormalizeSegs(a.segs \o b.segs, <<>>))
  ELSE RelPath(NormalizeRelSegs(a.segs \o b.segs, <<>>))

RECURSIVE CommonPrefix(_, _)
CommonPrefix(a, b) ==
  IF a # <<>> /\ b # <<>> /\ Head(a) = Head(b)
    THEN 1 + CommonPrefix(Tail(a), Tail(b))
    ELSE 0

\* path.relative(from, to): both resolved, the common leading segments
\* dropped, one ".." for every segment left of from, then the rest of to
PathRelative(from, to) ==
  LET f == FileOf(from).segs
      t == FileOf(to).segs
      k == CommonPrefix(f, t)
  IN RelPath([i \in 1..(Len(f) - k) |-> DotDot] \o SubSeq(t, k + 1, Len(t)))

\* generatedCSSfile + '.map'
WithMapSuffix(p) == [p EXCEPT !.segs[Len(p.segs)] = Append(Last(p.segs), "map")]

\* the path and every directory above it
Ancestors(p) == {AbsPath(SubSeq(p.segs, 1, k)) : k \in 0..Len(p.segs)}

\* lines 18-26 (sourceMap: "false", "true" or "inline")
defaultOptions ==
  [output |-> RelPath(<<Seg("styles", "css")>>),
   minify |-> FALSE,
   watchOutput |-> TRUE,
   debug |-> FALSE,
   domDiff |-> TRUE,
   watchImports |-> TRUE,
   sourceMap |-> "false"]

\* a merge in which the defaults win over the caller's values
MergeDefaultsWin(defaults, given) ==
  [k \in DOMAIN defaults \cup DOMAIN given |->
     IF k \in DOMAIN defaults THEN defaults[k] ELSE given[k]]

\* { ...defaults, ...given }
Merge(defaults, given) ==
  [k \in DOMAIN defaults \cup DOMAIN given |->
     IF k \in DOMAIN given THEN given[k] ELSE defaults[k]]

\* line 29
options == Merge(defaultOptions, userOptions)

\* lines 39-41
tailwindSourceFile ==
  IF "input" \in DOMAIN options
    THEN PathJoin(host.dir.input, options.input)
    ELSE Null

\* line 45
generatedCSSfile == PathJoin(host.directories.output, options.output)

\* line 47
generatedCSSpath == PathDirname(generatedCSSfile)

\* line 58, evaluated when the plugin is registered
inputValid == tailwindSourceFile # Null /\ ExistsSync(tailwindSourceFile)

Warning == [kind |-> "warning"]
Error == [kind |-> "error"]
Wrote == [kind |-> "wrote"]

\* the entry file watched only when it is valid
ValidationWatchesValidOnly ==
  (IF tailwindSourceFile # Null
     THEN <<Event("existsSync", tailwindSourceFile)>> ELSE <<>>)
  \o (IF inputValid
        THEN <<Event("addWatchTarget", tailwindSourceFile)>>
        ELSE <<Event("console.log", Warning)>>)

\* lines 58-72: the existence check, the warning, addWatchTarget
Validation ==
  (IF tailwindSourceFile # Null
     THEN <<Event("existsSync", tailwindSourceFile)>> ELSE <<>>)
  \o (IF inputValid THEN <<>> ELSE <<Event("console.log", Warning)>>)
  \o <<Event("addWatchTarget", tailwindSourceFile)>>

\* lines 86-91
WatchTargets(files) ==
  [i \in 1..Len(files) |-> Event("addWatchTarget", PathRelative(Cwd, files[i]))]

\* lines 102 and 153-159
Wiring ==
  <<Event("on", [event |-> "eleventy.before"]),
    Event("setServerOptions",
          [domDiff |-> options.domDiff,
           watch |-> IF options.watchOutput THEN <<generatedCSSfile>> ELSE <<>>])>>

resolver == <<fs, entry, logger, pc, stack, seen, result, trace>>

\* lines 15-159 of a registration that discovers no imports
Register ==
  /\ plugin.at = "start"
  /\ ~(inputValid /\ options.watchImports)
  /\ calls' = calls \o Validation \o Wiring
  /\ plugin' = [at |-> "registered", inputValid |-> inputValid]
  /\ UNCHANGED resolver
  /\ UNCHANGED <<earlier, host, userOptions, runs, builds, edits>>

\* the discovery run although watchImports is off
RegisterDiscoverAlways ==
  /\ plugin.at = "start"
  /\ inputValid
  /\ calls' = calls \o Validation
  /\ plugin' = [at |-> "discover", inputValid |-> TRUE]
  /\ entry' = tailwindSourceFile
  /\ logger' = IF options.debug THEN Callbacks ELSE {}
  /\ pc' = "idle"
  /\ UNCHANGED <<fs, stack, seen, result, trace>>
  /\ UNCHANGED <<earlier, host, userOptions, runs, builds, edits>>

\* lines 15-85: a valid entry file with watchImports on: the registration
\* reaches the call resolveImports(tailwindSourceFile, importLogger)
RegisterDiscover ==
  /\ plugin.at = "start"
  /\ inputValid /\ options.watchImports
  /\ calls' = calls \o Validation
  /\ plugin' = [at |-> "discover", inputValid |-> TRUE]
  /\ entry' = tailwindSourceFile
  /\ logger' = IF options.debug THEN Callbacks ELSE {}
  /\ pc' = "idle"
  /\ UNCHANGED <<fs, stack, seen, result, trace>>
  /\ UNCHANGED <<earlier, host, userOptions, runs, builds, edits>>

\* lines 85-159: resolveImports returned; its files are watched, the handler
\* and the server options are registered
RegisterImports ==
  /\ plugin.at = "discover"
  /\ pc = "done"
  /\ calls' = calls \o WatchTargets(result) \o Wiring
  /\ plugin' = [plugin EXCEPT !.at = "registered"]
  /\ UNCHANGED resolver
  /\ UNCHANGED <<earlier, host, userOptions, runs, builds, edits>>

\* line 85: resolveImports threw; nothing in tailwindcss catches it
RegisterThrows ==
  /\ plugin.at = "discover"
  /\ pc = "thrown"
  /\ plugin' = [plugin EXCEPT !.at = "thrown"]
  /\ UNCHANGED resolver
  /\ UNCHANGED <<earlier, host, userOptions, calls, runs, builds, edits>>

\* ------------------------------------------------ the eleventy.before handler
\* an invocation: its position, the text it read, the result of the
\* transformation, and the number of calls logged before it started
NewRun(at) ==
  [at |-> at, css |-> <<>>, result |-> [css |-> <<>>, map |-> <<>>],
   from |-> Len(calls)]
SetRun(r, v) == [runs EXCEPT ![r] = v]
Settled(run) == run.at \in {"resolved", "rejected"}

\* the host awaits the handlers of eleventy.before before it builds again
AllSettled == \A r \in 1..Len(runs) : Settled(runs[r])

\* a handler without try/catch: the failure rejects the handler's promise
Rethrow(r, log) ==
  /\ calls' = log
  /\ runs' = SetRun(r, [runs[r] EXCEPT !.at = "rejected"])

\* lines 148-150: the failure is logged and the handler's promise resolves
Catch(r, log) ==
  /\ calls' = Append(log, Event("console.log", Error))
  /\ runs' = SetRun(r, [runs[r] EXCEPT !.at = "resolved"])

\* line 103: the host emits eleventy.before, the handler returns at once
BeforeInert ==
  /\ plugin.at = "registered"
  /\ builds > 0 /\ AllSettled
  /\ ~plugin.inputValid
  /\ runs' = Append(runs, NewRun("resolved"))
  /\ builds' = builds - 1
  /\ UNCHANGED resolver
  /\ UNCHANGED <<earlier, host, userOptions, plugin, calls, edits>>

\* the handler deciding on the entry file's existence at each build
BeforeRechecks ==
  /\ plugin.at = "registered"
  /\ builds > 0 /\ AllSettled
  /\ tailwindSourceFile # Null /\ ExistsSync(tailwindSourceFile)
  /\ runs' = Append(runs, NewRun("readFile"))
  /\ builds' = builds - 1
  /\ UNCHANGED resolver
  /\ UNCHANGED <<earlier, host, userOptions, plugin, calls, edits>>

\* lines 103-114: the host emits eleventy.before, the handler runs up to
\* its first await
Before ==
  /\ plugin.at = "registered"
  /\ builds > 0 /\ AllSettled
  /\ plugin.inputValid
  /\ runs' = Append(runs, NewRun("readFile"))
  /\ builds' = builds - 1
  /\ UNCHANGED resolver
  /\ UNCHANGED <<earlier, host, userOptions, plugin, calls, edits>>

\* a handler that creates the output directory before it reads the entry
ReadFileAfterMkdir ==
  \E r \in 1..Len(runs) :
    /\ runs[r].at = "readFile"
    /\ LET dirs == Ancestors(FileOf(PathDirname(PathJoin(host.directories.output,
                                                         options.output))))
           made == ~\E d \in dirs : IsRegularFile(d)
           log == calls \o <<Event("mkdir", PathDirname(PathJoin(
                                      host.directories.output, options.output))),
                             Event("readFile", tailwindSourceFile)>>
           f == FileOf(tailwindSourceFile)
       IN /\ fs' = IF made
                     THEN [p \in DOMAIN fs \cup dirs |->
                             IF p \in DOMAIN fs THEN fs[p] ELSE Directory]
                     ELSE fs
          /\ IF IsRegularFile(f)
               THEN /\ calls' = log
                    /\ runs' = SetRun(r, [runs[r] EXCEPT !.at = "process",
                                                         !.css = fs[f].text])
               ELSE Catch(r, log)
    /\ UNCHANGED <<entry, logger, pc, stack, seen, result, trace>>
    /\ UNCHANGED <<earlier, host, userOptions, plugin, builds, edits>>

\* a handler that reads the entry file in its first cycle only and compiles
\* that text again in every later one
ReadFileOnce ==
  \E r \in 1..Len(runs) :
    /\ runs[r].at = "readFile"
    /\ LET log == Append(calls, Event("readFile", tailwindSourceFile))
           f == FileOf(tailwindSourceFile)
       IN IF r > 1 /\ runs[1].css # <<>>
            THEN /\ calls' = log
                 /\ runs' = SetRun(r, [runs[r] EXCEPT !.at = "process",
                                                      !.css = runs[1].css])
            ELSE IF IsRegularFile(f)
              THEN /\ calls' = log
                   /\ runs' = SetRun(r, [runs[r] EXCEPT !.at = "process",
                                                        !.css = fs[f].text])
              ELSE Catch(r, log)
    /\ UNCHANGED resolver
    /\ UNCHANGED <<earlier, host, userOptions, plugin, builds, edits>>

\* line 114: readFile fails on a missing path and on a directory
ReadFile ==
  \E r \in 1..Len(runs) :
    /\ runs[r].at = "readFile"
    /\ LET log == Append(calls, Event("readFile", tailwindSourceFile))
           f == FileOf(tailwindSourceFile)
       IN IF IsRegularFile(f)
            THEN /\ calls' = log
                 /\ runs' = SetRun(r, [runs[r] EXCEPT !.at = "process",
                                                      !.css = fs[f].text])
            ELSE Catch(r, log)
    /\ UNCHANGED resolver
    /\ UNCHANGED <<earlier, host, userOptions, plugin, builds, edits>>

\* lines 117-121
mapOption ==
  CASE options.sourceMap = "true" -> "external"
    [] options.sourceMap = "inline" -> "inline"
    [] OTHER -> "none"

LCompiled ==
  [t |-> "compiled",
   q |-> CASE options.minify /\ mapOption = "inline" -> "min+map"
           [] options.minify -> "min"
           [] mapOption = "inline" -> "map"
           [] OTHER -> "",
   v |-> NoPath]
LMap == Lex("sourcemap")

\* what the Tailwind and PostCSS chain rejects: a local @import whose file
\* is missing, and a comment that is never closed
ProcessFails(css) ==
  \/ \E s \in {x \in {ImportMatches(StripComments(css))[i] :
                        i \in 1..Len(ImportMatches(StripComments(css)))} :
                 PathExtname(x) # NoExt} :
       ~ExistsSync(PathResolve(PathDirname(FileOf(tailwindSourceFile)), s))
  \/ \E i \in 1..Len(css) :
       css[i] = LOpen /\ \A j \in (i + 1)..Len(css) : css[j] # LClose

\* lines 124-129: the result of postcss(plugins).process(css, ...): the
\* compiled text and, for an external source map, the map
Postcss(css) ==
  [css |-> <<LCompiled>> \o css,
   map |-> IF mapOption = "external" THEN <<LMap>> \o css ELSE <<>>]

\* lines 124-129
Process ==
  \E r \in 1..Len(runs) :
    /\ runs[r].at = "process"
    /\ LET log == Append(calls, Event("postcss", generatedCSSfile))
       IN IF ProcessFails(runs[r].css)
            THEN Catch(r, log)
            ELSE /\ calls' = log
                 /\ runs' = SetRun(r, [runs[r] EXCEPT !.at = "mkdir",
                                         !.result = Postcss(runs[r].css)])
    /\ UNCHANGED resolver
    /\ UNCHANGED <<earlier, host, userOptions, plugin, builds, edits>>

\* a handler without line 133: the output directory is never created
MkdirSkipped ==
  \E r \in 1..Len(runs) :
    /\ runs[r].at = "mkdir"
    /\ runs' = SetRun(r, [runs[r] EXCEPT !.at = "writeFile"])
    /\ UNCHANGED resolver
    /\ UNCHANGED <<earlier, host, userOptions, plugin, calls, builds, edits>>

\* line 133: mkdir(generatedCSSpath, { recursive: true }) creates every
\* missing directory of the path and fails when a file is in the way
Mkdir ==
  \E r \in 1..Len(runs) :
    /\ runs[r].at = "mkdir"
    /\ LET log == Append(calls, Event("mkdir", generatedCSSpath))
           dirs == Ancestors(FileOf(generatedCSSpath))
       IN IF \E d \in dirs : IsRegularFile(d)
            THEN Catch(r, log) /\ UNCHANGED fs
            ELSE /\ calls' = log
                 /\ runs' = SetRun(r, [runs[r] EXCEPT !.at = "writeFile"])
                 /\ fs' = [p \in DOMAIN fs \cup dirs |->
                             IF p \in DOMAIN fs THEN fs[p] ELSE Directory]
    /\ UNCHANGED <<entry, logger, pc, stack, seen, result, trace>>
    /\ UNCHANGED <<earlier, host, userOptions, plugin, builds, edits>>

\* writeFile(p, text) fails when p is a directory or has no directory above
WriteFails(p) == IsDirectory(p) \/ ~IsDirectory(PathDirname(p))
Written(p, text) ==
  [q \in DOMAIN fs \cup {p} |-> IF q = p THEN File(text) ELSE fs[q]]

\* lines 136-146
WriteFile ==
  \E r \in 1..Len(runs) :
    /\ runs[r].at = "writeFile"
    /\ LET log == Append(calls, Event("writeFile", generatedCSSfile))
           f == FileOf(generatedCSSfile)
       IN IF WriteFails(f)
            THEN Catch(r, log) /\ UNCHANGED fs
            ELSE /\ fs' = Written(f, runs[r].result.css)
                 /\ IF options.sourceMap = "true" /\ runs[r].result.map # <<>>
                      THEN /\ calls' = log
                           /\ runs' = SetRun(r, [runs[r] EXCEPT !.at = "writeMap"])
                      ELSE /\ calls' = Append(log, Event("console.log", Wrote))
                           /\ runs' = SetRun(r, [runs[r] EXCEPT !.at = "resolved"])
    /\ UNCHANGED <<entry, logger, pc, stack, seen, result, trace>>
    /\ UNCHANGED <<earlier, host, userOptions, plugin, builds, edits>>

\* lines 139-146: the external source map
WriteMap ==
  \E r \in 1..Len(runs) :
    /\ runs[r].at = "writeMap"
    /\ LET log == Append(calls, Event("writeFile", WithMapSuffix(generatedCSSfile)))
           f == FileOf(WithMapSuffix(generatedCSSfile))
       IN IF WriteFails(f)
            THEN Catch(r, log) /\ UNCHANGED fs
            ELSE /\ fs' = Written(f, runs[r].result.map)
                 /\ calls' = Append(log, Event("console.log", Wrote))
                 /\ runs' = SetRun(r, [runs[r] EXCEPT !.at = "resolved"])
    /\ UNCHANGED <<entry, logger, pc, stack, seen, result, trace>>
    /\ UNCHANGED <<earlier, host, userOptions, plugin, builds, edits>>

\* ------------------------------------------------------- the user's changes
FileX == AbsPath(<<Seg("x", "css")>>)
FileSubA == AbsPath(<<W, Sub, Seg("a", "css")>>)
SpecA == RelPath(<<Dot, Seg("a", "css")>>)
SpecUpX == RelPath(<<DotDot, Seg("x", "css")>>)

\* what the user saves: plain rules, or an import of a file that is missing
EditChoices ==
  {<<FileA, <<LTxt>>>>,
   <<FileA, ImportQ(DQ, SpecMissing) \o <<LTxt>>>>,
   <<Missing, <<LTxt>>>>}

\* the user (or another process) saves a file while or after the plugin is
\* registered
UserWrites ==
  \E c \in EditChoices :
    /\ plugin.at \in {"discover", "registered"}
    /\ edits > 0
    /\ Written(c[1], c[2]) # fs
    /\ fs' = Written(c[1], c[2])
    /\ edits' = edits - 1
    /\ UNCHANGED <<entry, logger, pc, stack, seen, result, trace>>
    /\ UNCHANGED <<earlier, host, userOptions, plugin, calls, runs, builds>>

\* the user deletes a file
UserRemoves ==
  \E p \in {c[1] : c \in EditChoices} :
    /\ plugin.at \in {"discover", "registered"}
    /\ edits > 0
    /\ IsRegularFile(p)
    /\ fs' = [q \in DOMAIN fs \ {p} |-> fs[q]]
    /\ edits' = edits - 1
    /\ UNCHANGED <<entry, logger, pc, stack, seen, result, trace>>
    /\ UNCHANGED <<earlier, host, userOptions, plugin, calls, runs, builds>>

PluginNext ==
  \/ Register
  \/ RegisterDiscover
  \/ Call
  \/ EnterBase
  \/ EnterScan
  \/ EnterThrow
  \/ IterBare
  \/ IterNotFound
  \/ IterSeen
  \/ IterRecurse
  \/ Return
  \/ RegisterImports
  \/ RegisterThrows
  \/ BeforeInert
  \/ Before
  \/ ReadFile
  \/ Process
  \/ Mkdir
  \/ WriteFile
  \/ WriteMap
  \/ UserWrites
  \/ UserRemoves

\* ------------------------------------------- initial states of a registration
\* tailwindcss(eleventyConfig, options) is about to be called
Unregistered ==
  /\ plugin = [at |-> "start", inputValid |-> FALSE]
  /\ earlier = <<>>
  /\ calls = <<>>
  /\ runs = <<>>
  /\ pc = "none"
  /\ entry = NoPath
  /\ logger = {}
  /\ stack = <<>>
  /\ seen = {}
  /\ result = <<>>
  /\ trace = <<>>

\* hosts whose legacy fields agree with the resolved ones, and hosts where
\* the input root, the output root or both were overridden
Hosts ==
  {HostSame,
   Host(RootDot, OutSite, RootSub, OutSite),
   Host(RootDot, OutSite, RootDot, OutDist),
   Host(RootSub, OutDist, RootDot, OutSite)}

Opt(k, v) == k :> v
RelPack == RelPath(<<Seg("pack", "css")>>)
OutMain == RelPath(<<Plain("css"), Seg("main", "css")>>)

\* a project whose entry file imports a sibling that imports it back, a file
\* above the working directory, a package and a missing file
ProjectFiles ==
  BaseDirs
    @@ (FileA :> File(ImportQ(DQ, SpecB) \o ImportQ(SQ, SpecUpX)
                        \o ImportQ(DQ, SpecTailwind) \o ImportQ(SQ, SpecMissing)))
    @@ (FileB :> File(ImportQ(DQ, SpecA)))
    @@ (FileX :> File(<<LTxt>>))
    @@ (FileSubA :> File(ImportQ(DQ, SpecUpB)))
    @@ (DirPack :> Directory)

\* registrations under every host and with every combination of the options
\* that steer a registration; the host starts no build
InitRegistration ==
  /\ host \in Hosts
  /\ \E i \in {NoOptions, Opt("input", RelA), Opt("input", RelMissing),
               Opt("input", RelPack)} :
       \E wi \in {NoOptions, Opt("watchImports", FALSE)} :
         \E dbg \in {NoOptions, Opt("debug", TRUE)} :
           \E dd \in {NoOptions, Opt("domDiff", TRUE), Opt("domDiff", FALSE)} :
             \E wo \in {NoOptions, Opt("watchOutput", FALSE)} :
               \E out \in {NoOptions, Opt("output", OutMain)} :
                 userOptions = i @@ wi @@ dbg @@ dd @@ wo @@ out
  /\ fs = ProjectFiles
  /\ builds = 0
  /\ edits = 0
  /\ Unregistered

\* what is at the output paths before the first build
Obstructions == {"none", "old", "fileAtDir", "dirAtFile", "dirAtMap"}

OutputDirs == [d \in Ancestors(FileOf(generatedCSSpath)) |-> Directory]

Obstructed(files, obs) ==
  CASE obs = "none" -> files
    [] obs = "old" ->
         (FileOf(generatedCSSfile) :> File(<<LTxt>>)) @@ OutputDirs @@ files
    [] obs = "fileAtDir" ->
         (FileOf(generatedCSSpath) :> File(<<LTxt>>)) @@ OutputDirs @@ files
    [] obs = "dirAtFile" ->
         (FileOf(generatedCSSfile) :> Directory) @@ OutputDirs @@ files
    [] obs = "dirAtMap" ->
         (FileOf(WithMapSuffix(generatedCSSfile)) :> Directory) @@ OutputDirs @@ files

\* the options that steer a build: how the entry is given, the source map
\* and minify settings, and what is in the way at the output paths
BuildCases ==
  {<<i, s, obs>> \in
     {Opt("input", RelA), Opt("input", RelA) @@ Opt("watchImports", FALSE),
      Opt("input", RelMissing), NoOptions,
      Opt("input", RelPack), Opt("input", RelPack) @@ Opt("watchImports", FALSE)}
     \X {NoOptions, Opt("sourceMap", "true"),
         Opt("sourceMap", "inline") @@ Opt("minify", TRUE)}
     \X Obstructions :
       /\ obs = "dirAtMap" => s = Opt("sourceMap", "true")
       /\ s # NoOptions => obs \in {"none", "dirAtMap"}}

\* registrations followed by MaxBuilds build cycles, the entry file compiling
\* or importing a missing file at first, the user changing files up to
\* MaxEdits times
InitBuild ==
  /\ \E place \in {<<HostSame, NoOptions>>,
                   <<Host(RootDot, OutSite, RootDot, OutDist), NoOptions>>,
                   <<HostSame, Opt("output", OutMain)>>} :
       \E c \in BuildCases :
         \E text \in {ImportQ(DQ, SpecB) \o <<LTxt>>,
                       ImportQ(SQ, SpecMissing) \o <<LTxt, LTxt>>} :
           /\ host = place[1]
           /\ userOptions = c[1] @@ c[2] @@ place[2]
           /\ fs = Obstructed(BaseDirs @@ (FileA :> File(text))
                                        @@ (FileB :> File(<<LTxt>>))
                                        @@ (DirPack :> Directory), c[3])
  /\ builds = MaxBuilds
  /\ edits = MaxEdits
  /\ Unregistered

PluginInit ==
  \/ InitRegistration
  \/ InitBuild

\* index.js registered with a host that runs its builds one after another
PluginSpec == PluginInit /\ [][PluginNext]_vars

\* ------------------------------------------------ a host that does not wait
\* lines 102-114: the handler is a plain async function with no lock: a
\* host that emits eleventy.before again before the last invocation has
\* settled starts a second one
BeforeOverlapping ==
  /\ plugin.at = "registered"
  /\ builds > 0
  /\ plugin.inputValid
  /\ runs' = Append(runs, NewRun("readFile"))
  /\ builds' = builds - 1
  /\ UNCHANGED resolver
  /\ UNCHANGED <<earlier, host, userOptions, plugin, calls, edits>>

OverlappingNext ==
  \/ Register
  \/ BeforeOverlapping
  \/ ReadFile
  \/ Process
  \/ Mkdir
  \/ WriteFile
  \/ WriteMap
  \/ UserWrites

\* a registration without import discovery whose entry file compiles, with
\* and without an external source map; the host starts two build cycles and
\* the user changes the entry file once
InitOverlapping ==
  /\ host = HostSame
  /\ \E s \in {NoOptions, Opt("sourceMap", "true")} :
       userOptions = Opt("input", RelA) @@ Opt("watchImports", FALSE) @@ s
  /\ \E text \in {ImportQ(DQ, SpecB) \o <<LTxt>>, <<LTxt, LTxt>>} :
       fs = BaseDirs @@ (FileA :> File(text)) @@ (FileB :> File(<<LTxt>>))
  /\ builds = 2
  /\ edits = 1
  /\ Unregistered

\* index.js registered with a host that may start a build callback while
\* an earlier one is still running
OverlappingSpec == InitOverlapping /\ [][OverlappingNext]_vars

\* ------------------------------------------------- vocabulary of the claims
Range(s) == {s[i] : i \in 1..Len(s)}

IsCallback(e) == e.op \in Callbacks
Reads == SelectSeq(trace, LAMBDA e : e.op = "readFileSync")
CallbackEvents == SelectSeq(trace, IsCallback)

TextOf(p) == IF IsRegularFile(p) THEN fs[p].text ELSE <<>>

RECURSIVE CommentMask(_, _, _)
\* which lexemes of a text lie in a comment: a comment starts at a "/*" that
\* is outside every comment and has a "*/" after it, and ends at the first
\* such "*/"
CommentMask(text, i, until) ==
  IF i > Len(text) THEN <<>>
  ELSE IF i <= until THEN <<TRUE>> \o CommentMask(text, i + 1, until)
  ELSE IF text[i] = LOpen /\ \E j \in (i + 1)..Len(text) : text[j] = LClose
    THEN <<TRUE>> \o CommentMask(text, i + 1,
                       Min({j \in (i + 1)..Len(text) : text[j] = LClose}))
  ELSE <<FALSE>> \o CommentMask(text, i + 1, until)

\* the specifiers of the quoted, non-url @import statements of a text that
\* lie outside every comment, in textual order
OutsideImports(text) ==
  LET mask == CommentMask(text, 1, 0)
      IsImportAt(i) == /\ i + 2 <= Len(text)
                       /\ text[i] = LAtImport /\ text[i + 1] = LWs
                       /\ text[i + 2].t = "str"
                       /\ ~mask[i] /\ ~mask[i + 1] /\ ~mask[i + 2]
      starts == SelectSeq([i \in 1..Len(text) |-> i], IsImportAt)
  IN [k \in 1..Len(starts) |-> text[starts[k] + 2].v]

\* the final path segment of a specifier contains a '.'
HasDot(spec) == spec.segs # <<>> /\ Len(Last(spec.segs)) > 1

\* the specifier has a file extension: a '.' in its final segment that is
\* not the segment's first character, the segment not being ".."
HasExtension(spec) ==
  /\ HasDot(spec)
  /\ Last(spec.segs) # DotDot
  /\ ~(Len(Last(spec.segs)) = 2 /\ Last(spec.segs)[1] = "")

\* the existing paths the local imports of file F name, in textual order
ImportTargets(F) ==
  LET specs == OutsideImports(TextOf(F))
      Local(s) == HasExtension(s) /\ PathResolve(PathDirname(F), s) \in DOMAIN fs
      local == SelectSeq(specs, Local)
  IN [k \in 1..Len(local) |-> PathResolve(PathDirname(F), local[k])]

\* the edge F -> G of the import graph
Edge(F, G) == G \in Range(ImportTargets(F))

RECURSIVE ReachableFrom(_)
\* the paths reachable from a set of paths by zero or more edges
ReachableFrom(S) ==
  LET more == S \cup {G \in DOMAIN fs : \E F \in S : Edge(F, G)}
  IN IF more = S THEN S ELSE ReachableFrom(more)

\* the paths reachable from F by one or more edges
Imported(F) == ReachableFrom({G \in DOMAIN fs : Edge(F, G)})

EntryFile == FileOf(entry)
ResultFiles == {FileOf(result[i]) : i \in 1..Len(result)}

RECURSIVE PreOrder(_, _, _)
\* depth-first pre-order of the import graph: the files still to visit, the
\* files already visited, the list so far
PreOrder(todo, visited, acc) ==
  IF todo = <<>> THEN acc
  ELSE IF Head(todo) \in visited THEN PreOrder(Tail(todo), visited, acc)
  ELSE PreOrder(ImportTargets(Head(todo)) \o Tail(todo),
                visited \cup {Head(todo)}, Append(acc, Head(todo)))

\* ---------------------------------------------------------------- the claims

\* C1: the returned list holds exactly the transitively imported local
\* files: every file other than the entry that is reachable from the entry
\* by one or more edges is in it, every path in it is reachable from the
\* entry by one or more edges and exists, and an entry file without
\* @import statements yields the empty list.
C1_ExactlyTheImportedFiles ==
  pc = "done" =>
    /\ Imported(EntryFile) \ {EntryFile} \subseteq ResultFiles
    /\ ResultFiles \subseteq Imported(EntryFile)
    /\ (\A i \in 1..Len(TextOf(EntryFile)) : TextOf(EntryFile)[i] # LAtImport)
         => result = <<>>

C1_Witness ==
  /\ pc = "done"
  /\ Len(result) = 3
  /\ Len(ImportTargets(EntryFile)) = 1

\* C2: the returned list contains no file twice and never the entry file,
\* for absolute and for working-directory-relative entry paths.
C2_NoDuplicateNoEntry ==
  pc = "done" =>
    /\ \A i, j \in 1..Len(result) :
         i # j => FileOf(result[i]) # FileOf(result[j])
    /\ EntryFile \notin ResultFiles

\* C3: within one top-level call no file is read more than once, for
\* absolute and for working-directory-relative entry paths.
C3_NoFileScannedTwice ==
  \A i, j \in 1..Len(Reads) :
    i # j => FileOf(Reads[i].arg) # FileOf(Reads[j].arg)

\* every path that can be given or imported is absent or a regular file
OnlyFiles ==
  \A p \in DOMAIN fs :
    fs[p].kind = "dir" => PathExtname(p) = NoExt /\ p # EntryFile

\* C4: on every set of files (self-imports, cycles and diamonds included) a
\* call that starts returns a list.
C4_Terminates == (OnlyFiles /\ pc = "running") ~> (pc = "done")

C4_Witness ==
  /\ pc = "done"
  /\ entry = FileA
  /\ Edge(FileA, FileA) /\ Edge(FileA, FileB) /\ Edge(FileB, FileC) /\ Edge(FileC, FileA)

\* C5: the returned list is the depth-first pre-order of the import graph
\* from the entry file, the entry file itself left out and each file listed
\* at its first occurrence only.
C5_PreOrder ==
  pc = "done" => result = PreOrder(ImportTargets(EntryFile), {EntryFile}, <<>>)

\* C6: a scanned specifier whose final segment has no '.' adds nothing to
\* the result, causes no disk check and no recursion, and is reported once
\* to onSkipBare (when provided) as the exact specifier.
C6_BareSkipped ==
  [][(AtMatch /\ ~HasDot(ImportPath)) =>
       /\ trace' = (IF "onSkipBare" \in logger
                      THEN Append(trace, Event("onSkipBare", ImportPath))
                      ELSE trace)
       /\ Len(stack') = Len(stack)
       /\ stack'[Len(stack)].imports = Top.imports
       /\ seen' = seen /\ pc' = pc]_vars

C6_Witness ==
  /\ pc = "done"
  /\ Event("onSkipBare", SpecOpenProps) \in Range(trace)
  /\ Event("onSkipBare", SpecTailwind) \in Range(trace)

\* the local specifiers of a scanned file whose resolved path is not on disk
MissingTargets(F) ==
  {PathResolve(PathDirname(F), s) : s \in
     {x \in Range(OutsideImports(TextOf(F))) :
        HasExtension(x) /\ PathResolve(PathDirname(F), x) \notin DOMAIN fs}}

ScannedFiles == {FileOf(Reads[i].arg) : i \in 1..Len(Reads)}

\* C7: a local specifier whose resolved path is missing is left out of the
\* result and reported to onSkipNotFound (when provided) with the resolved
\* path, and every import of the same file that exists is still discovered.
C7_MissingNotFatal ==
  pc = "done" =>
    \A F \in ScannedFiles : \A m \in MissingTargets(F) :
      /\ m \notin ResultFiles
      /\ "onSkipNotFound" \in logger =>
           Event("onSkipNotFound", m) \in Range(trace)
      /\ \A G \in Range(ImportTargets(F)) : G \in ResultFiles \cup {EntryFile}

C7_Witness ==
  /\ pc = "done"
  /\ TextOf(FileA) = ImportQ(DQ, SpecMissing) \o ImportQ(SQ, SpecB)
  /\ result = <<FileB>>
  /\ Event("onSkipNotFound", Missing) \in Range(trace)

\* the argument a callback receives for a specifier of file F
Reported(F, s) == {s, PathResolve(PathDirname(F), s)}

\* C8: @import url(...) statements cause no callback and no result entry:
\* every callback invocation and every returned path stems from a quoted,
\* non-url import of a scanned file, and there are never more callback
\* invocations than such imports.
C8_UrlIgnored ==
  /\ \A i \in 1..Len(CallbackEvents) :
       \E F \in ScannedFiles : \E s \in Range(OutsideImports(TextOf(F))) :
         CallbackEvents[i].arg \in Reported(F, s)
  /\ \A i \in 1..Len(result) :
       \E F \in ScannedFiles : \E s \in Range(OutsideImports(TextOf(F))) :
         result[i] = PathResolve(PathDirname(F), s)
  /\ \A F \in ScannedFiles :
       ScannedFiles = {F} => Len(CallbackEvents) <= Len(OutsideImports(TextOf(F)))

C8_Witness ==
  /\ pc = "done"
  /\ TextOf(FileA) = ImportUrl(SQ, SpecB) \o ImportUrl(DQ, SpecTailwind)
  /\ logger = Callbacks
  /\ result = <<>> /\ CallbackEvents = <<>>

\* the step that reads and scans a file
ScanStep ==
  /\ pc = "running" /\ Top.at = "entry"
  /\ pc' = "running" /\ Len(stack') = Len(stack)
  /\ stack'[Len(stack)].at = "loop"

\* the step that invokes a callback
CallbackStep == Len(trace') > Len(trace) /\ IsCallback(trace'[Len(trace')])

\* C9: the imports a scan matches are exactly the quoted imports that lie
\* outside every comment (each comment ending at the first "*/" after its
\* "/*"), and every callback is invoked for one of them.
C9_CommentsIgnored ==
  [][/\ ScanStep =>
          stack'[Len(stack)].matches = OutsideImports(TextOf(FileOf(Top.filePath)))
     /\ (AtMatch /\ CallbackStep) =>
          ImportPath \in Range(OutsideImports(TextOf(FileOf(Top.filePath))))]_vars

C9_Witness ==
  /\ pc = "done"
  /\ TextOf(FileA) = <<LOpen, LNewline>> \o ImportQ(DQ, SpecB) \o <<LClose>>
                       \o ImportQ(SQ, SpecTailwind)
  /\ CallbackEvents = <<Event("onSkipBare", SpecTailwind)>>
  /\ result = <<>>

\* C10: a top-level call on a path that is not on disk returns the empty
\* list, does not throw, reads no file and invokes no callback.
C10_MissingEntry ==
  ~ExistsSync(entry) =>
    /\ pc # "thrown"
    /\ Reads = <<>>
    /\ CallbackEvents = <<>>
    /\ pc = "done" => result = <<>>

C10_Witness ==
  /\ pc = "done"
  /\ entry = RelMissing
  /\ logger = Callbacks
  /\ result = <<>>

\* C11: resolveImports never raises: whatever the entry path and whatever
\* each path is on disk (absent, a regular file or a directory), the call
\* does not end in an exception.
C11_NeverRaises == pc # "thrown"

\* the directory that holds the file being scanned
ContainingDir == PathDirname(FileOf(Top.filePath))

\* the events a step appends to the trace
NewEvents == SubSeq(trace', Len(trace) + 1, Len(trace'))

\* C12: every local specifier is resolved against the directory of the file
\* that contains the statement, at every depth: the path checked on disk,
\* reported, pushed and recursed into is that directory joined with the
\* specifier, whatever the entry's directory and the working directory are.
C12_ContainingDirectory ==
  [][(AtMatch /\ PathExtname(ImportPath) # NoExt) =>
       LET target == PathResolve(ContainingDir, ImportPath) IN
       /\ NewEvents # <<>>
       /\ NewEvents[1] = Event("existsSync", target)
       /\ \A e \in Range(NewEvents) : e.arg = target
       /\ Len(stack') > Len(stack) =>
            /\ stack'[Len(stack')].filePath = target
            /\ Last(stack'[Len(stack)].imports) = target]_vars

C12_Witness ==
  /\ pc = "done"
  /\ entry = RelA
  /\ TextOf(FileA) = ImportQ(DQ, SpecB) \o ImportQ(DQ, SpecSubC)
  /\ TextOf(FileC) = ImportQ(SQ, SpecB)
  /\ result = <<FileB, FileC, FileSubB>>

\* ---------------------------------------------- vocabulary for the orchestrator
WatchCalls(cs) == SelectSeq(cs, LAMBDA e : e.op = "addWatchTarget")
ServerCalls(cs) == SelectSeq(cs, LAMBDA e : e.op = "setServerOptions")

InputGiven == "input" \in DOMAIN userOptions
WatchImportsOn == "watchImports" \notin DOMAIN userOptions \/ userOptions.watchImports

\* the input roots the host exposes, and the entry path under each
InputRoots == {host.dir.input, host.directories.input}
EntryPaths == {PathJoin(r, userOptions.input) : r \in InputRoots}

\* the entry file is on disk or not, whichever root is meant
EntryPresent == InputGiven /\ \A p \in EntryPaths : ExistsSync(p)
EntryAbsent == ~InputGiven \/ \A p \in EntryPaths : ~ExistsSync(p)

\* the step in which tailwindcss(eleventyConfig, options) starts
RegistrationStarts == plugin.at = "start" /\ plugin'.at # "start"

\* the operation run r is about to perform fails
Failing(r) ==
  \/ runs[r].at = "readFile" /\ ~IsRegularFile(FileOf(tailwindSourceFile))
  \/ runs[r].at = "process" /\ ProcessFails(runs[r].css)
  \/ runs[r].at = "mkdir"
       /\ \E d \in Ancestors(FileOf(generatedCSSpath)) : IsRegularFile(d)
  \/ runs[r].at = "writeFile" /\ WriteFails(FileOf(generatedCSSfile))
  \/ runs[r].at = "writeMap" /\ WriteFails(FileOf(WithMapSuffix(generatedCSSfile)))

\* C13: the handler never propagates a failure: when the read, the
\* transformation, the directory creation or a write fails, the run ends
\* with its promise resolved right after one error diagnostic, and no run
\* is ever rejected.
C13_NeverPropagates ==
  [][\A r \in 1..Len(runs) :
       /\ runs'[r].at # "rejected"
       /\ (runs'[r] # runs[r] /\ Failing(r)) =>
            /\ runs'[r].at = "resolved"
            /\ Len(calls') = Len(calls) + 2
            /\ calls'[Len(calls')] = Event("console.log", Error)]_vars

C13_Witness ==
  /\ Len(runs) = 2 /\ AllSettled
  /\ \E i \in 1..(Len(calls) - 1) :
       /\ calls[i] = Event("writeFile", WithMapSuffix(generatedCSSfile))
       /\ calls[i + 1] = Event("console.log", Error)
  /\ \E i \in 1..(Len(calls) - 1) :
       /\ calls[i].op = "postcss"
       /\ calls[i + 1] = Event("console.log", Error)

\* C14: a registration made without an input option, or while the entry
\* file is not on disk, is inert for good: from then on a build cycle only
\* resolves at once, with no call logged and the file system untouched,
\* whatever the user does to the files in between.
C14_PermanentlyInert ==
  [][/\ (RegistrationStarts /\ EntryAbsent) =>
          (plugin'.at = "registered" /\ ~plugin'.inputValid)
     /\ (plugin.at = "registered" /\ ~plugin.inputValid) =>
          /\ plugin' = plugin
          /\ calls' = calls
          /\ runs' # runs =>
               /\ fs' = fs
               /\ Len(runs') = Len(runs) + 1
               /\ SubSeq(runs', 1, Len(runs)) = runs
               /\ runs'[Len(runs')].at = "resolved"]_vars

C14_Witness ==
  /\ plugin.at = "registered"
  /\ InputGiven /\ userOptions.input = RelMissing
  /\ IsRegularFile(Missing)
  /\ Len(runs) = 2 /\ AllSettled
  /\ \A e \in Range(calls) : e.op \notin {"readFile", "postcss", "mkdir", "writeFile"}

\* C15: a registration with an input option calls addWatchTarget first with
\* the entry path (an input root joined with the option), whether or not
\* that path is on disk; when it is not, the registration makes no other
\* addWatchTarget call.
C15_EntryAlwaysWatched ==
  [][/\ (RegistrationStarts /\ InputGiven) =>
          LET w == WatchCalls(calls') IN
          /\ w # <<>>
          /\ w[1].arg \in EntryPaths
          /\ ~ExistsSync(w[1].arg) => (Len(w) = 1 /\ plugin'.at = "registered")
     /\ plugin.at = "registered" => WatchCalls(calls') = WatchCalls(calls)]_vars

C15_Witness ==
  /\ plugin.at = "registered"
  /\ InputGiven /\ userOptions.input = RelMissing
  /\ WatchImportsOn
  /\ WatchCalls(calls) = <<Event("addWatchTarget", RelMissing)>>

\* C16: with the entry file on disk and watchImports on, the registration
\* invokes resolveImports once and then watches each returned path, in the
\* returned order, as a path relative to the working directory; with
\* watchImports off or no entry file, resolveImports is not invoked and the
\* entry is the only watch target.
C16_ImportsWatched ==
  [][/\ RegistrationStarts =>
          /\ (EntryPresent /\ WatchImportsOn) =>
               (plugin'.at = "discover" /\ pc' = "idle" /\ entry' \in EntryPaths)
          /\ (EntryAbsent \/ ~WatchImportsOn) =>
               /\ plugin'.at = "registered" /\ pc' = "none"
               /\ Len(WatchCalls(calls')) = 1
     /\ pc' = "idle" => pc \in {"none", "idle"}
     /\ (plugin.at = "discover" /\ plugin'.at = "registered") =>
          LET before == Len(WatchCalls(calls))
              new == SubSeq(WatchCalls(calls'), before + 1, Len(WatchCalls(calls')))
          IN /\ pc = "done"
             /\ Len(new) = Len(result)
             /\ \A i \in 1..Len(result) :
                  ~new[i].arg.abs /\ FileOf(new[i].arg) = result[i]
     /\ plugin.at = "registered" =>
          (pc' = pc /\ WatchCalls(calls') = WatchCalls(calls))]_vars

C16_Witness ==
  /\ plugin.at = "registered"
  /\ pc = "done" /\ Len(result) = 3
  /\ Len(WatchCalls(calls)) = 4
  /\ WatchCalls(calls)[4] = Event("addWatchTarget", RelPath(<<DotDot, Seg("x", "css")>>))

\* run r is about to fail at the read or at the transformation
EarlyFailure(r) ==
  \/ runs[r].at = "readFile" /\ ~IsRegularFile(FileOf(tailwindSourceFile))
  \/ runs[r].at = "process" /\ ProcessFails(runs[r].css)

\* the calls logged since run r started
CycleCalls(cs, r) == SubSeq(cs, runs[r].from + 1, Len(cs))

\* C17: a cycle whose read or transformation fails creates no directory and
\* writes nothing: the failing step leaves the file system as it is (the
\* output of the last successful cycle stays, or none), the cycle logged no
\* mkdir and no writeFile, and the registration stays able to build.
C17_FailedCycleWritesNothing ==
  [][\A r \in 1..Len(runs) :
       (runs'[r] # runs[r] /\ EarlyFailure(r)) =>
         /\ fs' = fs
         /\ runs'[r].at = "resolved"
         /\ plugin' = plugin /\ builds' = builds
         /\ \A e \in Range(CycleCalls(calls', r)) :
              e.op \notin {"mkdir", "writeFile"}]_vars

C17_Witness ==
  /\ Len(runs) = 2 /\ AllSettled
  /\ calls[runs[2].from] = Event("console.log", Error)
  /\ calls[runs[2].from - 1].op = "postcss"
  /\ calls[Len(calls)] = Event("console.log", Wrote)
  /\ IsRegularFile(FileOf(generatedCSSfile))

\* C18: when the legacy and the resolved directory fields differ, the entry
\* path is the resolved input root joined with the input option and the
\* output path the resolved output root joined with the output option.
C18_CanonicalRoots ==
  (plugin.at # "start" /\ InputGiven) =>
    LET src == PathJoin(host.directories.input, userOptions.input)
        out == PathJoin(host.directories.output,
                        IF "output" \in DOMAIN userOptions
                          THEN userOptions.output
                          ELSE RelPath(<<Seg("styles", "css")>>))
    IN /\ WatchCalls(calls)[1].arg = src
       /\ \A e \in Range(calls) :
            /\ e.op = "readFile" => e.arg = src
            /\ e.op = "writeFile" => e.arg \in {out, WithMapSuffix(out)}
            /\ e.op = "setServerOptions" => e.arg.watch \in {<<>>, <<out>>}

C20_DomDiffOffByDefault ==
  \A e \in Range(ServerCalls(calls)) :
    e.arg.domDiff = (IF "domDiff" \in DOMAIN userOptions
                       THEN userOptions.domDiff ELSE FALSE)

\* the arguments of the onWatch invocations of a trace, in order
Watched(tr) ==
  LET w == SelectSeq(tr, LAMBDA e : e.op = "onWatch")
  IN [i \in 1..Len(w) |-> w[i].arg]

\* every onWatch(p) in the trace is followed at once by the scan of p: the
\* existence check and the read of the recursive call
ScannedRightAfterWatch(tr) ==
  \A i \in 1..Len(tr) :
    tr[i].op = "onWatch" =>
      /\ i + 1 <= Len(tr) => tr[i + 1] = Event("existsSync", tr[i].arg)
      /\ i + 2 <= Len(tr) => tr[i + 2] = Event("readFileSync", tr[i].arg)

\* the next specifier is local and names an existing file that this call
\* has already scanned
AtVisited ==
  /\ AtMatch
  /\ PathExtname(ImportPath) # NoExt
  /\ ExistsSync(Resolved)
  /\ FileOf(Resolved) \in ScannedFiles

\* C21: within one call onWatch (when provided) is invoked exactly once for
\* each path of the returned list, in the order of the list and right before
\* that path is scanned, and for nothing else; a specifier that resolves to
\* an existing file the call has already visited invokes no callback and
\* adds no entry.
C21_OnWatchPerResult ==
  [][/\ (pc' = "done" /\ "onWatch" \in logger) => Watched(trace') = result'
     /\ ScannedRightAfterWatch(trace')
     /\ AtVisited =>
          /\ SelectSeq(trace', IsCallback) = CallbackEvents
          /\ Len(stack') = Len(stack)
          /\ stack'[Len(stack)].imports = Top.imports]_vars

\* the positions of the "/*" of a text that have no "*/" after them
Unterminated(text) ==
  {i \in 1..Len(text) :
     text[i] = LOpen /\ \A j \in (i + 1)..Len(text) : text[j] # LClose}

\* the text before its first unterminated "/*", and the text from it on
BeforeUnterminated(text) == SubSeq(text, 1, Min(Unterminated(text)) - 1)
FromUnterminated(text) == SubSeq(text, Min(Unterminated(text)), Len(text))

\* the specifiers of the quoted, non-url @import statements of a text in
\* which no comment ends
QuotedImports(text) ==
  LET IsImportAt(i) == /\ i + 2 <= Len(text)
                       /\ text[i] = LAtImport /\ text[i + 1] = LWs
                       /\ text[i + 2].t = "str"
      starts == SelectSeq([i \in 1..Len(text) |-> i], IsImportAt)
  IN [k \in 1..Len(starts) |-> text[starts[k] + 2].v]

\* the step that scans a file whose text has an unterminated "/*"
ScansUnterminated == ScanStep /\ Unterminated(TextOf(FileOf(Top.filePath))) # {}

\* C22: when a file has a "/*" with no "*/" after it, everything after that
\* "/*" is ignored: the scan matches only the imports before it, nothing
\* after it reaches a callback or the result, and no error is raised.
C22_UnterminatedSwallowsRest ==
  [][ScansUnterminated =>
       stack'[Len(stack)].matches =
         OutsideImports(BeforeUnterminated(TextOf(FileOf(Top.filePath))))]_vars

\* C22, amended: a "/*" with no "*/" after it removes nothing: the scan
\* matches the imports outside the closed comments before it and every
\* quoted import after it, which are then handled like any other, and no
\* error is raised.
C22_UnterminatedStripsNothing ==
  [][ScansUnterminated =>
       /\ stack'[Len(stack)].matches =
            OutsideImports(BeforeUnterminated(TextOf(FileOf(Top.filePath))))
              \o QuotedImports(FromUnterminated(TextOf(FileOf(Top.filePath))))
       /\ pc' = "running"]_vars

C22_Witness ==
  /\ pc = "done"
  /\ TextOf(FileA) = <<LOpen, LClose, LOpen>>
                       \o ImportQ(SQ, SpecTailwind) \o ImportQ(DQ, SpecB)
  /\ CallbackEvents = <<Event("onSkipBare", SpecTailwind), Event("onWatch", FileB)>>
  /\ result = <<FileB>>

\* the step handles the next specifier as a local file reference: it checks
\* the resolved path on disk and invokes no onSkipBare
HandledAsLocal ==
  /\ NewEvents # <<>>
  /\ NewEvents[1] = Event("existsSync", PathResolve(ContainingDir, ImportPath))
  /\ \A e \in Range(NewEvents) : e.op # "onSkipBare"

\* the step handles the next specifier as a bare module: it reports the
\* specifier to onSkipBare (when provided) and does nothing else
HandledAsBare ==
  /\ NewEvents = (IF "onSkipBare" \in logger
                    THEN <<Event("onSkipBare", ImportPath)>> ELSE <<>>)
  /\ stack' = SetTop(Advance(Top))
  /\ seen' = seen

\* C23: a specifier is bare exactly when its final path segment contains no
\* '.': every specifier whose final segment contains a '.' is handled as a
\* local file reference and never reported through onSkipBare.
C23_BareIffNoDot ==
  [][AtMatch => IF HasDot(ImportPath) THEN HandledAsLocal ELSE HandledAsBare]_vars

\* C23, amended: a specifier is bare exactly when it has no file extension
\* as path.extname sees it: its final segment contains no '.', or its only
\* '.' is its first character, or it is "." or ".."; every other specifier
\* is handled as a local file reference and never reported through
\* onSkipBare.
C23_BareIffNoExtension ==
  [][AtMatch =>
       IF HasExtension(ImportPath) THEN HandledAsLocal ELSE HandledAsBare]_vars

C23_Witness ==
  /\ pc = "done"
  /\ TextOf(FileA) = ImportQ(DQ, SpecHidden) \o ImportQ(SQ, SpecHiddenCss)
  /\ IsRegularFile(FileHidden)
  /\ trace[3] = Event("onSkipBare", SpecHidden)
  /\ result = <<FileHiddenCss>>
  /\ Len(SelectSeq(trace, LAMBDA e : e.op = "onSkipBare")) = 2

RegistrationOps == {"existsSync", "addWatchTarget", "on", "setServerOptions"}
BuildOps == {"readFile", "postcss", "mkdir", "writeFile"}

\* the names of the calls of cs that are among ops, in order
OpsOf(cs, ops) ==
  LET sel == SelectSeq(cs, LAMBDA e : e.op \in ops)
  IN [i \in 1..Len(sel) |-> sel[i].op]

\* the call tailwindcss(eleventyConfig, options) is over
RegistrationOver == plugin.at \in {"registered", "thrown"}

\* the order of a registration that watches n paths
RegistrationOrder(n) ==
  (IF InputGiven THEN <<"existsSync">> ELSE <<>>)
    \o [i \in 1..n |-> "addWatchTarget"]
    \o <<"on", "setServerOptions">>

\* the registration has called resolveImports
Discovered == pc # "none"

\* C24: every registration makes its host calls in one order, the entry file
\* valid or not: the existence check, addWatchTarget(entry), the import
\* discovery and its addWatchTarget calls (if any), on('eleventy.before')
\* once, setServerOptions once; no build work is done during registration.
C24_RegistrationOrder ==
  /\ ~RegistrationOver =>
       /\ runs = <<>>
       /\ OpsOf(calls, BuildOps) = <<>>
       /\ Discovered =>
            OpsOf(calls, RegistrationOps) = <<"existsSync", "addWatchTarget">>
  /\ RegistrationOver =>
       LET n == Len(WatchCalls(calls))
           first == SelectSeq(calls, LAMBDA e : e.op \in RegistrationOps)
       IN /\ n >= 1
          /\ OpsOf(calls, RegistrationOps) = RegistrationOrder(n)
          /\ InputGiven => first[1].arg = first[2].arg
          /\ n > 1 => (Discovered /\ n = 1 + Len(result))
          /\ \A i, j \in 1..Len(calls) :
               (calls[i].op \in RegistrationOps /\ calls[j].op \in BuildOps) => i < j

\* the step in which run r reads the entry file
ReadStep(r) == runs[r].at = "readFile" /\ runs'[r].at = "process"

\* the step in which run r ends with the success message
SuccessStep(r) ==
  /\ ~Settled(runs[r]) /\ runs'[r].at = "resolved"
  /\ calls'[Len(calls')] = Event("console.log", Wrote)

\* the entry file and the output file of the registration
EntryOnDisk == FileOf(tailwindSourceFile)
OutputOnDisk == FileOf(generatedCSSfile)

\* C25: the handler keeps no state between cycles: invoked serially, each
\* cycle reads the text the entry file has at that moment, and a cycle that
\* succeeds leaves the output file equal to the transformation of the text
\* it read, so a change made between two cycles shows in the second.
C25_NoStateBetweenCycles ==
  [][\A r \in 1..Len(runs) :
       /\ ReadStep(r) => runs'[r].css = fs[EntryOnDisk].text
       /\ ~ReadStep(r) => runs'[r].css = runs[r].css
       /\ SuccessStep(r) =>
            /\ OutputOnDisk \in DOMAIN fs'
            /\ fs'[OutputOnDisk] = File(Postcss(runs[r].css).css)]_vars

C25_Witness ==
  /\ Len(runs) = 2 /\ AllSettled
  /\ runs[1].css = ImportQ(DQ, SpecB) \o <<LTxt>>
  /\ runs[2].css = <<LTxt>>
  /\ Len(SelectSeq(calls, LAMBDA e : e = Event("console.log", Wrote))) = 2
  /\ fs[OutputOnDisk] = File(Postcss(<<LTxt>>).css)

\* the step in which run r calls writeFile for the output file
OutputWriteStep(r) == runs[r].at = "writeFile" /\ runs'[r] # runs[r]

\* the output file is created or its content replaced
OutputChanges ==
  /\ OutputOnDisk \in DOMAIN fs'
  /\ OutputOnDisk \notin DOMAIN fs \/ fs'[OutputOnDisk] # fs[OutputOnDisk]

\* C26: a cycle writes the output file as its fourth step, after the read,
\* the transformation and the creation of the directory tree: when
\* writeFile is called the output directory exists, also when it was absent
\* at the start of the cycle, and nothing else writes the output file.
C26_DirectoryBeforeWrite ==
  [][/\ \A r \in 1..Len(runs) :
          OutputWriteStep(r) =>
            /\ IsDirectory(FileOf(generatedCSSpath))
            /\ OpsOf(CycleCalls(calls', r), BuildOps) =
                 <<"readFile", "postcss", "mkdir", "writeFile">>
     /\ OutputChanges => \E r \in 1..Len(runs) : OutputWriteStep(r)]_vars

C26_Witness ==
  /\ Len(runs) = 1 /\ AllSettled
  /\ "output" \in DOMAIN userOptions /\ userOptions.output = OutMain
  /\ OpsOf(calls, RegistrationOps \cup BuildOps) =
       <<"existsSync", "addWatchTarget", "on", "setServerOptions",
         "readFile", "postcss", "mkdir", "writeFile">>
  /\ IsRegularFile(OutputOnDisk)
  /\ calls[Len(calls)] = Event("console.log", Wrote)

\* the top-level calls that have returned, the current one included
Returned ==
  IF pc = "done"
    THEN Append(earlier, [entry |-> entry, result |-> result, trace |-> trace])
    ELSE earlier

\* C27: the visited set belongs to one top-level call: on an unchanged file
\* system two top-level calls on the same path, whatever was resolved
\* before or in between, return the same list and produce the same sequence
\* of reads and callbacks, so a later call scans again what an earlier one
\* visited.
C27_CallsIndependent ==
  \A i, j \in 1..Len(Returned) :
    Returned[i].entry = Returned[j].entry =>
      /\ Returned[i].result = Returned[j].result
      /\ Returned[i].trace = Returned[j].trace

C27_Witness ==
  /\ Len(Returned) = 3
  /\ Returned[1].entry = FileA /\ Returned[2].entry = FileB /\ Returned[3].entry = FileA
  /\ Returned[1].result = <<FileB, FileC, FileD>>
  /\ Returned[3].result = <<FileB, FileC, FileD>>
  /\ Event("readFileSync", FileC) \in Range(Returned[2].trace)
  /\ Event("readFileSync", FileC) \in Range(Returned[3].trace)

\* the value is a path string (not null, the value of a missing input)
IsPathString(v) == DOMAIN v = {"abs", "segs"}

\* C28: every value passed to addWatchTarget is a path string: no
\* registration, with or without an input option, calls it with null.
C28_WatchTargetsArePaths ==
  \A e \in Range(WatchCalls(calls)) : IsPathString(e.arg)

\* the files the addWatchTarget calls of the registration denote, in order
WatchedFiles ==
  LET w == SelectSeq(WatchCalls(calls), LAMBDA e : IsPathString(e.arg))
  IN [i \in 1..Len(w) |-> FileOf(w[i].arg)]

\* C29: within one registration no file is registered as a watch target
\* twice: the paths registered for the discovered imports denote pairwise
\* distinct files and none of them denotes the entry file, also when a
\* cycle of imports leads back to the entry file.
C29_NoFileWatchedTwice ==
  \A i, j \in 1..Len(WatchedFiles) :
    i # j => WatchedFiles[i] # WatchedFiles[j]

\* runs 1 and 2 have both ended with the success message, run 1 having read
\* the entry file before the user changed it and run 2 after
BothWroteAcrossChange ==
  /\ Len(runs) >= 2
  /\ Settled(runs[1]) /\ Settled(runs[2])
  /\ Len(SelectSeq(calls, LAMBDA e : e = Event("console.log", Wrote))) >= 2
  /\ runs[1].css # runs[2].css
  /\ runs[2].css = TextOf(EntryOnDisk)

\* C30: when a second build callback starts before the first has finished
\* and the entry file changes between their reads, then once both have
\* finished the output file holds the transformation of the text the
\* later-started callback read, never the stale result of the earlier one.
C30_LaterBuildWins ==
  (Len(runs) = 2 /\ BothWroteAcrossChange) =>
    fs[OutputOnDisk] = File(Postcss(runs[2].css).css)

====
